---- MODULE Spec2Model ----
(***************************************************************************)
(* The command-line lifecycle manager of dev-tooling-go (package            *)
(* commandline), together with the logging context accessors it uses.       *)
(*                                                                          *)
(* The repository holds three implementations of the manager:               *)
(*   "registry"  src/commandline/registry.go  (bridge inside the pre-run    *)
(*               hook, no cleanup chain),                                   *)
(*   "part_000"  src/unnamed/part_000         (bridge inside the pre-run    *)
(*               hook, cleanup chain = caller procedures ++ internal),      *)
(*   "part_001"  src/unnamed/part_001         (signal.NotifyContext in New, *)
(*               cleanup chain = stop ++ caller procedures).                *)
(* The variable `variant` fixes which one a behaviour runs.                 *)
(*                                                                          *)
(* One primary thread runs New, RegisterCommands, Execute and Cleanup one   *)
(* after the other; the signal-watching goroutines and the operating        *)
(* system's signal delivery interleave with it.                             *)
(***************************************************************************)
EXTENDS Integers, Sequences, FiniteSets, TLC

\* ------------------------------------------------------------------ bounds
MaxExec == 2          \* Execute calls in one behaviour
MaxSignals == 2       \* SIGINT/SIGTERM deliveries in one behaviour
MaxMods == 2          \* length of RootCommandOptions.Modifiers
MaxCleanups == 2      \* length of RootCommandOptions.CleanupFuncs
MaxCleanupCalls == 2  \* Cleanup calls in one behaviour
MaxVerbosity == 4     \* largest count of the verbose flag
MaxStores == 3        \* stores into the context of the context packages
MaxSpare == 1         \* spare capacity of the caller's CleanupFuncs slice

\* ------------------------------------------------------- program constants
\* logrus.Level values named by the pre-run hook
WarnLevel == 3
InfoLevel == 4
DebugLevel == 5
TraceLevel == 6

\* the key logging.AddToContext stores the logger under; modifier i uses key i
LoggerKey == 0
RootDirKey == 100
OtherKey == 101
\* ctx.Value of a key the chain does not hold (Go: nil)
\* Values are typed as Go's interface values are: typ is the dynamic type, v
\* tells the values of a type apart. Missing is the nil interface value, which
\* ctx.Value returns when nothing is stored and which a stored nil fs.FS is.
Missing == [typ |-> "nil", v |-> 0]
Panic == [typ |-> "panic", v |-> 0]
NoResult == [op |-> "none", out |-> Missing]
Logger(level) == [typ |-> "logger", v |-> level]

Variants == {"registry", "part_000", "part_001"}
HasCleanup(v) == v \in {"part_000", "part_001"}

Names == {"", "demo"}
Versions == {"", "1.0.0"}
Descriptions == {"", "A test CLI application"}
Commands == {"A", "B"}

\* A caller-supplied cleanup procedure either returns or panics.
ProcKinds == {"ok", "panic"}

RECURSIVE SeqsUpTo(_, _)
SeqsUpTo(S, n) ==
    IF n = 0 THEN {<<>>}
    ELSE LET shorter == SeqsUpTo(S, n - 1)
         IN  shorter \cup {Append(s, x) : s \in {t \in shorter : Len(t) = n - 1}, x \in S}

\* RootCommandOptions: Modifiers are m1..mn (mi adds key i), CleanupFuncs a
\* sequence of procedures.
OptionsSet ==
    [Name : Names, Version : Versions, Description : Descriptions,
     Modifiers : {[i \in 1..n |-> i] : n \in 0..MaxMods},
     CleanupFuncs : SeqsUpTo(ProcKinds, MaxCleanups)]

ArgsSet == [cmd : Commands, verbose : 0..MaxVerbosity]

\* The caller programs explored: the options and the command line vary one
\* group of fields at a time around a default program.
\*   - Name, Version and Description vary (construction);
\*   - CleanupFuncs vary (the cleanup chain);
\*   - Modifiers and the verbose count vary (the pre-run hook);
\*   - the selected command varies.
DefaultOptions ==
    [Name |-> "demo", Version |-> "1.0.0", Description |-> "A test CLI application",
     Modifiers |-> [i \in 1..MaxMods |-> i],
     CleanupFuncs |-> [i \in 1..MaxCleanups |-> "ok"]]

DefaultArgs == [cmd |-> "A", verbose |-> 0]

Programs ==
    {[options |-> o, args |-> DefaultArgs] :
        o \in {x \in OptionsSet : /\ x.Modifiers = DefaultOptions.Modifiers
                                  /\ x.CleanupFuncs = DefaultOptions.CleanupFuncs}}
    \cup {[options |-> o, args |-> DefaultArgs] :
        o \in {x \in OptionsSet : /\ x.Name = DefaultOptions.Name
                                  /\ x.Version = DefaultOptions.Version
                                  /\ x.Description = DefaultOptions.Description
                                  /\ x.Modifiers = DefaultOptions.Modifiers}}
    \cup {[options |-> o, args |-> a] :
        o \in {x \in OptionsSet : /\ x.Name = DefaultOptions.Name
                                  /\ x.Version = DefaultOptions.Version
                                  /\ x.Description = DefaultOptions.Description
                                  /\ x.CleanupFuncs = DefaultOptions.CleanupFuncs},
        a \in {y \in ArgsSet : y.cmd = DefaultArgs.cmd}}
    \cup {[options |-> DefaultOptions, args |-> a] :
        a \in {y \in ArgsSet : y.verbose = DefaultArgs.verbose}}

\* ---------------------------------------------------------------- contexts
\* A context.Context: the chain of values stored on the way from
\* context.Background() and the cancel nodes (WithCancel) among its ancestors.
Background == [vals |-> <<>>, cancels |-> {}]

\* a WithValue that forgets what the parent context held
WithValue_DropsParent(ctx, k, v) == [ctx EXCEPT !.vals = <<<<k, v>>>>]

WithValue(ctx, k, v) == [ctx EXCEPT !.vals = Append(@, <<k, v>>)]

WithCancel(ctx, id) == [ctx EXCEPT !.cancels = @ \cup {id}]

\* ctx.Value(k): the most recent value stored under k, Missing when none.
Value(ctx, k) ==
    LET hits == {i \in 1..Len(ctx.vals) : ctx.vals[i][1] = k}
    IN  IF hits = {} THEN Missing
        ELSE ctx.vals[CHOOSE i \in hits : \A j \in hits : j <= i][2]

\* ctx.Done() is closed: some cancel node among the ancestors was cancelled.
IsDone(ctx, cancelledSet) == ctx.cancels \cap cancelledSet # {}

\* logging.AddToContext
AddToContext(ctx, logger) == WithValue(ctx, LoggerKey, logger)

\* logging.FromContext: the logger when the type assertion to *logrus.Logger
\* succeeds, a panic otherwise.
FromContext(ctx) ==
    LET x == Value(ctx, LoggerKey)
    IN  IF x.typ = "logger" THEN x ELSE Panic

\* fileutils.ApplyRootDirToContext
ApplyRootDirToContext(ctx, files) == WithValue(ctx, RootDirKey, files)

\* a RootDirFromContext that returns whatever the key holds
RootDirFromContext_NoTypeTest(ctx) == Value(ctx, RootDirKey)

\* fileutils.RootDirFromContext: the handle when the type assertion to fs.FS
\* succeeds (it fails on the nil interface value), a panic otherwise.
RootDirFromContext(ctx) ==
    LET x == Value(ctx, RootDirKey)
    IN  IF x.typ = "fs" THEN x ELSE Panic

\* ---------------------------------------------------------- configuration
\* validate with the Version test dropped
validate_NoVersionTest(options) ==
    IF options.Name = "" THEN "root command must have name" ELSE "nil"

\* validate testing Version before Name
validate_VersionFirst(options) ==
    IF options.Version = "" THEN "root command must have version"
    ELSE IF options.Name = "" THEN "root command must have name"
    ELSE "nil"

validate(options) ==
    IF options.Name = "" THEN "root command must have name"
    ELSE IF options.Version = "" THEN "root command must have version"
    ELSE "nil"

\* the verbosity switch of the pre-run hook
LevelFor(c) ==
    CASE c = 1 -> InfoLevel
      [] c = 2 -> DebugLevel
      [] c = 3 -> TraceLevel
      [] OTHER -> WarnLevel

\* Modifier mi: derives a context that adds key i; the value it stores is the
\* number of values its input already held, so the chain shows what mi received.
Modifier(i, ctx) == WithValue(ctx, i, [typ |-> "int", v |-> Len(ctx.vals)])

\* the loop over the modifiers stopping one short of the end
RECURSIVE ApplyModifiers_SkipLast(_, _)
ApplyModifiers_SkipLast(mods, acc) ==
    IF Len(mods) <= 1 THEN acc
    ELSE ApplyModifiers_SkipLast(Tail(mods),
                                 [ctx |-> Modifier(Head(mods), acc.ctx),
                                  calls |-> Append(acc.calls, Head(mods))])

\* for _, modifier := range options.Modifiers { ctx = modifier(ctx) }
\* acc = [ctx, calls]: the context so far and the modifiers called so far.
RECURSIVE ApplyModifiers(_, _)
ApplyModifiers(mods, acc) ==
    IF mods = <<>> THEN acc
    ELSE ApplyModifiers(Tail(mods),
                        [ctx |-> Modifier(Head(mods), acc.ctx),
                         calls |-> Append(acc.calls, Head(mods))])

\* ------------------------------------------------------------------- state
VARIABLES
    variant,        \* which implementation of the manager runs
    options,        \* the RootCommandOptions the caller passes to New
    args,           \* the process's command line (os.Args[1:]): the command it
                    \* selects and the count of the verbose flag
    pc,             \* primary thread: "start", "failed", "idle", "body", "cleanup", "panicked"
    killed,         \* the process was terminated by a signal nobody was subscribed to
    newErr,         \* the error New returned ("nil": none)
    root,           \* cobra root command: Use, Version, Short
    children,       \* root.Commands(), in registration order
    cmdCtx,         \* the context set on each command (root included)
    hasCtx,         \* the commands whose context is set (not nil)
    bridges,        \* bridges[id]: the cancel nodes the bridge goroutine id watches
    cancelled,      \* the cancel nodes whose cancel function was called
    subs,           \* the signal channels registered with signal.Notify
    chanBuf,        \* the signal channels holding a buffered signal
    tasks,          \* the bridge goroutines still running
    cancelFunc,     \* part_000: New's cancelFunc variable (0: nil)
    signalDone,     \* part_000: New's signalDone variable (0: nil)
    cleanups,       \* CLI.cleanups, the aggregated cleanup chain
    cleanIdx,       \* position of Cleanup's loop in the chain
    cleanWait,      \* part_000: the internal procedure blocks on <-signalDone
    order,          \* the procedures run so far, in order (0: internal, i: caller's i-th)
    cleanupCalls,   \* Cleanup calls started
    cleanupReturns, \* Cleanup calls returned
    running,        \* the command whose body runs ("none")
    bodyCtx,        \* the context the latest command body observes
    modCalls,       \* the modifiers the latest pre-run hook called, in order
    count,          \* the verbosity count the latest pre-run hook read
    hooks,          \* pre-run hook invocations
    sigs,           \* signals delivered
    hit,            \* cancel-node sets of the contexts of bodies running when a signal came
    lastErr,        \* what the latest Execute returned ("none": no Execute returned yet)
    produced,       \* what the command body or the framework's parsing produced in it
    registered,     \* the commands given to RegisterCommands so far, in order
    tctx,           \* a context a caller of the context packages builds by stores
    tres,           \* the latest load from tctx and what it returned (NoResult: no
                    \* load since the latest store)
    stored,         \* stored[k]: the value of the latest store under key k into tctx
    callerArr,      \* the backing array of the caller's CleanupFuncs slice, spare
                    \* capacity included
    chainShared     \* CLI.cleanups is a slice of the caller's backing array

vars == <<variant, options, args, pc, killed, newErr, root, children, cmdCtx, hasCtx,
          bridges, cancelled, subs, chanBuf, tasks, cancelFunc, signalDone,
          cleanups, cleanIdx, cleanWait, order, cleanupCalls, cleanupReturns,
          running, bodyCtx, modCalls, count, hooks, sigs, hit, lastErr, produced,
          registered, tctx, tres, stored, callerArr, chainShared>>

\* the state of the manager, its threads and the process
lifeVars == <<variant, options, args, pc, killed, newErr, root, children, cmdCtx, hasCtx,
              bridges, cancelled, subs, chanBuf, tasks, cancelFunc, signalDone,
              cleanups, cleanIdx, cleanWait, order, cleanupCalls, cleanupReturns,
              running, bodyCtx, modCalls, count, hooks, sigs, hit, lastErr, produced,
              registered, callerArr, chainShared>>

mainVars == <<pc, newErr, root, children, cmdCtx, hasCtx, cancelFunc, signalDone,
              cleanups, cleanIdx, cleanWait, order, cleanupCalls, cleanupReturns,
              running, bodyCtx, modCalls, count, hooks, lastErr, produced, registered>>

\* The keys and values the callers of the context packages store: the two
\* packages' keys and a caller's own key; two filesystem handles, the nil
\* fs.FS, a logger and a string.
Keys == {LoggerKey, RootDirKey, OtherKey}
Handles == {[typ |-> "fs", v |-> 1], [typ |-> "fs", v |-> 2]}
Stored == Handles \cup {Missing, Logger(InfoLevel), [typ |-> "string", v |-> 0]}

NoRoot == [Use |-> "", Version |-> "", Short |-> ""]
Internal == [kind |-> "internal", idx |-> 0, proc |-> "ok"]
UserProc(funcs, i) == [kind |-> "user", idx |-> i, proc |-> funcs[i]]
NilProc == [kind |-> "nil", idx |-> 0, proc |-> "ok"]
Wrapped(p) == [kind |-> "wrapper", idx |-> p.idx, proc |-> p.proc]

\* The backing array of a CleanupFuncs slice with the given spare capacity:
\* the procedures, then the unused slots.
CallerArray(funcs, spare) ==
    [i \in 1..(Len(funcs) + spare) |-> IF i <= Len(funcs) THEN UserProc(funcs, i) ELSE NilProc]

\* Go's append(s, x) for a slice s of length n over the backing array arr:
\* with spare capacity x is written into arr and the result shares arr,
\* without it the elements are copied to a new array and arr is left alone.
GoAppend(arr, n, x) ==
    IF n < Len(arr) THEN [arr |-> [arr EXCEPT ![n + 1] = x], shared |-> TRUE]
    ELSE [arr |-> arr, shared |-> FALSE]

\* What building the chain does to the caller's backing array.
\*   part_000: allCleanups = append(options.CleanupFuncs, func() {...})
\*   part_001: make([]func(), 0, 1+len(...)), then appends into the new array
\*   registry: builds no chain
ChainStorage(v, arr, n) ==
    IF v = "part_000" THEN GoAppend(arr, n, Internal)
    ELSE [arr |-> arr, shared |-> FALSE]

\* The state of a process before New is called.
Unconstructed ==
    /\ pc = "start"
    /\ killed = FALSE
    /\ newErr = "nil"
    /\ root = NoRoot
    /\ children = <<>>
    /\ cmdCtx = [c \in Commands \cup {"root"} |-> Background]
    /\ hasCtx = {}
    /\ bridges = <<>>
    /\ cancelled = {}
    /\ subs = {}
    /\ chanBuf = {}
    /\ tasks = {}
    /\ cancelFunc = 0
    /\ signalDone = 0
    /\ cleanups = <<>>
    /\ cleanIdx = 0
    /\ cleanWait = FALSE
    /\ order = <<>>
    /\ cleanupCalls = 0
    /\ cleanupReturns = 0
    /\ running = "none"
    /\ bodyCtx = Background
    /\ modCalls = <<>>
    /\ count = 0
    /\ hooks = 0
    /\ sigs = 0
    /\ hit = {}
    /\ lastErr = "none"
    /\ produced = "none"
    /\ registered = <<>>
    /\ tctx = Background
    /\ tres = NoResult
    /\ stored = [k \in Keys |-> Missing]
    /\ chainShared = FALSE

\* The callers of the lifecycle tests pass slice literals: no spare capacity.
Init ==
    /\ variant \in Variants
    /\ \E p \in Programs : options = p.options /\ args = p.args
    /\ callerArr = CallerArray(options.CleanupFuncs, 0)
    /\ Unconstructed

\* ------------------------------------------------------------ construction
\* signal.NotifyContext called before the options are validated
NewBridges_BeforeValidate(v, err) == IF v = "part_001" THEN 1 ELSE 0

\* The bridges New installs: part_001 calls signal.NotifyContext after
\* validation succeeded; the other two install none in New.
NewBridges(v, err) == IF v = "part_001" /\ err = "nil" THEN 1 ELSE 0

\* a chain built from the caller's procedures alone
Chain_NoInternal(v, funcs) == [i \in 1..Len(funcs) |-> UserProc(funcs, i)]

\* The aggregated cleanup chain New builds.
\*   part_001: append(append(allCleanups, stop), options.CleanupFuncs...)
\*   part_000: append(options.CleanupFuncs, func() {...})
\*   registry: the CLI has no cleanups field
Chain(v, funcs) ==
    LET user == [i \in 1..Len(funcs) |-> UserProc(funcs, i)]
    IN  CASE v = "part_001" -> <<Internal>> \o user
          [] v = "part_000" -> Append(user, Internal)
          [] OTHER -> <<>>

New ==
    /\ pc = "start"
    /\ ~killed
    /\ LET err == validate(options)
           n == NewBridges(variant, err)
       IN  /\ newErr' = err
           /\ bridges' = [i \in 1..n |-> {i}]
           /\ subs' = 1..n
           /\ tasks' = 1..n
           /\ IF err # "nil"
              THEN /\ pc' = "failed"
                   /\ UNCHANGED <<root, cleanups, cmdCtx, hasCtx, callerArr, chainShared>>
              ELSE /\ pc' = "idle"
                   /\ root' = [Use |-> options.Name, Version |-> options.Version,
                               Short |-> options.Description]
                   /\ cleanups' = Chain(variant, options.CleanupFuncs)
                   /\ LET st == ChainStorage(variant, callerArr, Len(options.CleanupFuncs))
                      IN  callerArr' = st.arr /\ chainShared' = st.shared
                   \* part_001: root.SetContext(signalCtx)
                   /\ IF n > 0
                      THEN /\ cmdCtx' = [cmdCtx EXCEPT !["root"] = WithCancel(Background, 1)]
                           /\ hasCtx' = {"root"}
                      ELSE UNCHANGED <<cmdCtx, hasCtx>>
    /\ UNCHANGED <<lastErr, produced, registered, tctx, tres, stored, variant, options, args, killed, children, cancelled, chanBuf, cancelFunc,
                   signalDone, cleanIdx, cleanWait, order, cleanupCalls, cleanupReturns,
                   running, bodyCtx, modCalls, count, hooks, sigs, hit>>

\* ------------------------------------------------------------ registration
\* an AddCommand that replaces the children instead of appending
AddCommand_Replace(kids, cs) == cs

\* cobra's AddCommand: the commands are appended to the root's children.
AddCommand(kids, cs) == kids \o cs

\* cr.root.AddCommand(commands...): the caller registers commands not yet
\* registered.
RegisterCommands(cs) ==
    /\ pc = "idle"
    /\ ~killed
    /\ cs # <<>>
    /\ \A i \in 1..Len(cs) :
          /\ \A j \in 1..Len(children) : children[j] # cs[i]
          /\ \A j \in 1..Len(cs) : cs[j] = cs[i] => j = i
    /\ children' = AddCommand(children, cs)
    /\ registered' = registered \o cs
    /\ UNCHANGED <<lastErr, produced, callerArr, chainShared, tctx, tres, stored, variant, options, args, pc, killed, newErr, root, cmdCtx, hasCtx, bridges,
                   cancelled, subs, chanBuf, tasks, cancelFunc, signalDone, cleanups,
                   cleanIdx, cleanWait, order, cleanupCalls, cleanupReturns, running,
                   bodyCtx, modCalls, count, hooks, sigs, hit>>

\* --------------------------------------------------------------- execution
\* Whether the pre-run hook of variant v installs a signal bridge.
HookInstallsBridge(v) == v \in {"registry", "part_000"}

\* a hook that stores the logger after the modifiers ran
PreRun_LoggerLast(v, ctx0, c, id, mods) ==
    LET r == ApplyModifiers(mods, [ctx |-> ctx0, calls |-> <<>>])
        logged == AddToContext(r.ctx, Logger(LevelFor(c)))
        cctx == IF v = "part_001" THEN logged ELSE WithCancel(logged, id)
    IN  [ctx |-> cctx, calls |-> r.calls,
         watch |-> IF v = "part_001" THEN {} ELSE cctx.cancels]

\* PersistentPreRunE(cmd, args): ctx0 is cmd.Context(), c the verbosity count,
\* id the cancel node / channel / goroutine the hook creates when it installs a
\* bridge. Result: the context set on the command, the modifiers called, and
\* the cancel nodes of the context the bridge goroutine watches.
PreRun(v, ctx0, c, id, mods) ==
    LET logged == AddToContext(ctx0, Logger(LevelFor(c)))
    IN  CASE v = "registry" ->
               LET cctx == WithCancel(logged, id)
                   r == ApplyModifiers(mods, [ctx |-> cctx, calls |-> <<>>])
               IN  [ctx |-> r.ctx, calls |-> r.calls, watch |-> cctx.cancels]
          [] v = "part_000" ->
               LET r == ApplyModifiers(mods, [ctx |-> logged, calls |-> <<>>])
                   cctx == WithCancel(r.ctx, id)
               IN  [ctx |-> cctx, calls |-> r.calls, watch |-> cctx.cancels]
          [] OTHER ->
               LET r == ApplyModifiers(mods, [ctx |-> logged, calls |-> <<>>])
               IN  [ctx |-> r.ctx, calls |-> r.calls, watch |-> {}]

\* cobra: the root's context defaults to context.Background(), a command
\* without a context takes the root's.
ContextOf(cmd) ==
    IF cmd \in hasCtx THEN cmdCtx[cmd]
    ELSE IF "root" \in hasCtx THEN cmdCtx["root"]
    ELSE Background

\* cobra's Find: the child the command line selects ("none": no child matches).
Find(kids, name) == IF \E i \in 1..Len(kids) : kids[i] = name THEN name ELSE "none"

\* What the body of a command returns: the caller's command B fails, A succeeds.
BodyErr(cmd) == IF cmd = "B" THEN "body failed" ELSE "nil"

\* What the pre-run hook returns (every variant ends with return nil).
PreRunErr(v) == "nil"

\* an Execute that wraps the error it got
ExecuteResult_Wrap(hookErr, err) ==
    IF hookErr # "nil" THEN hookErr ELSE IF err = "nil" THEN "nil" ELSE "execute failed"

\* return cr.root.Execute(): the framework returns the hook's error if it has
\* one, else what the parsing or the command body produced; Execute returns that.
ExecuteResult(hookErr, err) == IF hookErr # "nil" THEN hookErr ELSE err

\* cr.root.Execute() parses the process's command line (Execute takes no
\* arguments and root is unexported). The line selects a registered command:
\* the framework runs the pre-run hook, then starts the command body.
Execute ==
    /\ pc = "idle"
    /\ ~killed
    /\ hooks < MaxExec
    /\ Find(children, args.cmd) # "none"
    /\ LET cmd == Find(children, args.cmd)
           id == Len(bridges) + 1
           r == PreRun(variant, ContextOf(cmd), args.verbose, id, options.Modifiers)
       IN  /\ cmdCtx' = [cmdCtx EXCEPT ![cmd] = r.ctx,
                                       !["root"] = IF "root" \in hasCtx THEN @ ELSE Background]
           /\ hasCtx' = hasCtx \cup {cmd, "root"}
           /\ bodyCtx' = r.ctx
           /\ modCalls' = r.calls
           /\ IF HookInstallsBridge(variant)
              THEN /\ bridges' = Append(bridges, r.watch)
                   /\ subs' = subs \cup {id}
                   /\ tasks' = tasks \cup {id}
                   /\ IF variant = "part_000"
                      THEN cancelFunc' = id /\ signalDone' = id
                      ELSE UNCHANGED <<cancelFunc, signalDone>>
              ELSE UNCHANGED <<bridges, subs, tasks, cancelFunc, signalDone>>
    /\ pc' = "body"
    /\ running' = Find(children, args.cmd)
    /\ count' = args.verbose
    /\ hooks' = hooks + 1
    /\ UNCHANGED <<lastErr, produced, registered, callerArr, chainShared, tctx, tres, stored, variant, options, args, killed, newErr, root, children, cancelled, chanBuf,
                   cleanups, cleanIdx, cleanWait, order, cleanupCalls, cleanupReturns,
                   sigs, hit>>

\* The command body returns and Execute with it.
BodyReturn ==
    /\ pc = "body"
    /\ ~killed
    /\ pc' = "idle"
    /\ running' = "none"
    /\ produced' = BodyErr(running)
    /\ lastErr' = ExecuteResult(PreRunErr(variant), BodyErr(running))
    /\ UNCHANGED <<registered, callerArr, chainShared, tctx, tres, stored, variant, options, args, killed, newErr, root, children, cmdCtx, hasCtx,
                   bridges, cancelled, subs, chanBuf, tasks, cancelFunc, signalDone,
                   cleanups, cleanIdx, cleanWait, order, cleanupCalls, cleanupReturns,
                   bodyCtx, modCalls, count, hooks, sigs, hit>>

\* Execute when the command line selects no registered command: the framework
\* runs neither hook nor body; with no child at all the root prints its help
\* and there is no error, otherwise parsing fails with "unknown command".
ExecuteNoMatch ==
    /\ pc = "idle"
    /\ ~killed
    /\ Find(children, args.cmd) = "none"
    /\ LET err == IF children = <<>> THEN "nil" ELSE "unknown command"
       IN  /\ produced' = err
           /\ lastErr' = ExecuteResult("nil", err)
    /\ UNCHANGED <<registered, callerArr, chainShared, tctx, tres, stored, variant, options, args, pc, killed, newErr, root, children,
                   cmdCtx, hasCtx, bridges, cancelled, subs, chanBuf, tasks, cancelFunc,
                   signalDone, cleanups, cleanIdx, cleanWait, order, cleanupCalls,
                   cleanupReturns, running, bodyCtx, modCalls, count, hooks, sigs, hit>>

\* ----------------------------------------------------------------- cleanup
\* The internal teardown procedure of the chain.
\*   part_001: stop of signal.NotifyContext: c.cancel(); signal.Stop(c.ch)
\*   part_000: if cancelFunc != nil { cancelFunc() }
\*             if signalDone != nil { <-signalDone }
InternalCancels(v, cf) ==
    CASE v = "part_001" -> {1}
      [] v = "part_000" /\ cf # 0 -> {cf}
      [] OTHER -> {}

InternalStops(v) == IF v = "part_001" THEN {1} ELSE {}

\* the internal procedure receiving from signalDone without the nil test
InternalWaits_NoNilTest(v, sd) == IF v = "part_000" THEN {sd} ELSE {}

InternalWaits(v, sd) == IF v = "part_000" /\ sd # 0 THEN {sd} ELSE {}

\* cr.Cleanup() is called; the registry variant has no such method.
CleanupCall ==
    /\ pc = "idle"
    /\ ~killed
    /\ HasCleanup(variant)
    /\ cleanupCalls < MaxCleanupCalls
    /\ pc' = "cleanup"
    /\ cleanIdx' = 1
    /\ cleanupCalls' = cleanupCalls + 1
    /\ UNCHANGED <<lastErr, produced, registered, callerArr, chainShared, tctx, tres, stored, variant, options, args, killed, newErr, root, children, cmdCtx, hasCtx,
                   bridges, cancelled, subs, chanBuf, tasks, cancelFunc, signalDone,
                   cleanups, cleanWait, order, cleanupReturns, running, bodyCtx,
                   modCalls, count, hooks, sigs, hit>>

\* The loop reaches the internal procedure, which cancels and unsubscribes and,
\* in part_000, then blocks on signalDone.
CleanupInternal ==
    /\ pc = "cleanup"
    /\ ~killed
    /\ ~cleanWait
    /\ cleanIdx <= Len(cleanups)
    /\ cleanups[cleanIdx].kind = "internal"
    /\ order' = Append(order, 0)
    /\ cancelled' = cancelled \cup InternalCancels(variant, cancelFunc)
    /\ subs' = subs \ InternalStops(variant)
    /\ IF InternalWaits(variant, signalDone) = {}
       THEN cleanIdx' = cleanIdx + 1 /\ UNCHANGED cleanWait
       ELSE cleanWait' = TRUE /\ UNCHANGED cleanIdx
    /\ UNCHANGED <<lastErr, produced, registered, callerArr, chainShared, tctx, tres, stored, variant, options, args, pc, killed, newErr, root, children, cmdCtx, hasCtx,
                   bridges, chanBuf, tasks, cancelFunc, signalDone, cleanups,
                   cleanupCalls, cleanupReturns, running, bodyCtx, modCalls, count,
                   hooks, sigs, hit>>

\* part_000: <-signalDone returns once the goroutine closed the channel (a
\* receive from a nil channel never returns).
CleanupWait ==
    /\ pc = "cleanup"
    /\ ~killed
    /\ cleanWait
    /\ \A d \in InternalWaits(variant, signalDone) : d # 0 /\ d \notin tasks
    /\ cleanWait' = FALSE
    /\ cleanIdx' = cleanIdx + 1
    /\ UNCHANGED <<lastErr, produced, registered, callerArr, chainShared, tctx, tres, stored, variant, options, args, pc, killed, newErr, root, children, cmdCtx, hasCtx,
                   bridges, cancelled, subs, chanBuf, tasks, cancelFunc, signalDone,
                   cleanups, order, cleanupCalls, cleanupReturns, running, bodyCtx,
                   modCalls, count, hooks, sigs, hit>>

\* The loop reaches a caller-supplied procedure and calls it; a panic of the
\* procedure propagates out of Cleanup (the loop has no recover).
CleanupUser ==
    /\ pc = "cleanup"
    /\ ~killed
    /\ cleanIdx <= Len(cleanups)
    /\ cleanups[cleanIdx].kind = "user"
    /\ order' = Append(order, cleanups[cleanIdx].idx)
    /\ IF cleanups[cleanIdx].proc = "panic"
       THEN pc' = "panicked" /\ UNCHANGED cleanIdx
       ELSE cleanIdx' = cleanIdx + 1 /\ UNCHANGED pc
    /\ UNCHANGED <<lastErr, produced, registered, callerArr, chainShared, tctx, tres, stored, variant, options, args, killed, newErr, root, children, cmdCtx, hasCtx,
                   bridges, cancelled, subs, chanBuf, tasks, cancelFunc, signalDone,
                   cleanups, cleanWait, cleanupCalls, cleanupReturns, running, bodyCtx,
                   modCalls, count, hooks, sigs, hit>>

\* The loop is over and Cleanup returns.
CleanupReturn ==
    /\ pc = "cleanup"
    /\ ~killed
    /\ cleanIdx > Len(cleanups)
    /\ pc' = "idle"
    /\ cleanupReturns' = cleanupReturns + 1
    /\ UNCHANGED <<lastErr, produced, registered, callerArr, chainShared, tctx, tres, stored, variant, options, args, killed, newErr, root, children, cmdCtx, hasCtx,
                   bridges, cancelled, subs, chanBuf, tasks, cancelFunc, signalDone,
                   cleanups, cleanIdx, cleanWait, order, cleanupCalls, running, bodyCtx,
                   modCalls, count, hooks, sigs, hit>>

\* ----------------------------------------------------- signals and bridges
\* The operating system delivers SIGINT or SIGTERM to the process: package
\* signal sends it, without blocking, to every registered channel (capacity
\* 1); with no channel registered the default action terminates the process.
Signal ==
    /\ pc \in {"idle", "body", "cleanup"}
    /\ ~killed
    /\ sigs < MaxSignals
    /\ sigs' = sigs + 1
    /\ IF subs = {}
       THEN killed' = TRUE /\ UNCHANGED chanBuf
       ELSE chanBuf' = chanBuf \cup subs /\ UNCHANGED killed
    /\ hit' = IF pc = "body" /\ cleanupCalls = 0 THEN hit \cup {bodyCtx.cancels} ELSE hit
    /\ UNCHANGED <<callerArr, chainShared, tctx, tres, stored, variant, options, args, bridges, cancelled, subs, tasks>>
    /\ UNCHANGED mainVars

\* a bridge goroutine that returns on a signal without calling cancel
OnSignal_NoCancel(id) == {}

\* The cancel nodes bridge goroutine id cancels when its channel delivers.
OnSignal(id) == {id}

\* The channels a bridge goroutine of variant v unregisters as it exits
\* (part_000: defer signal.Stop(c)).
OnExitStops(v, id) == IF v = "part_000" THEN {id} ELSE {}

\* The goroutine's select takes the signal case: cancel, then return.
BridgeSignal(id) ==
    /\ id \in tasks
    /\ ~killed
    /\ pc # "panicked"
    /\ id \in chanBuf
    /\ chanBuf' = chanBuf \ {id}
    /\ cancelled' = cancelled \cup OnSignal(id)
    /\ tasks' = tasks \ {id}
    /\ subs' = subs \ OnExitStops(variant, id)
    /\ UNCHANGED <<callerArr, chainShared, tctx, tres, stored, variant, options, args, killed, bridges, sigs, hit>>
    /\ UNCHANGED mainVars

\* The goroutine's select takes the ctx.Done() case: return.
BridgeDone(id) ==
    /\ id \in tasks
    /\ ~killed
    /\ pc # "panicked"
    /\ bridges[id] \cap cancelled # {}
    /\ tasks' = tasks \ {id}
    /\ subs' = subs \ OnExitStops(variant, id)
    /\ UNCHANGED <<callerArr, chainShared, tctx, tres, stored, variant, options, args, killed, bridges, cancelled, chanBuf, sigs, hit>>
    /\ UNCHANGED mainVars

\* ----------------------------------------------------------- specification
BridgeIds == 1..(MaxExec + 1)

Next ==
    \/ New
    \/ \E cs \in SeqsUpTo(Commands, Cardinality(Commands)) : RegisterCommands(cs)
    \/ Execute
    \/ ExecuteNoMatch
    \/ BodyReturn
    \/ CleanupCall
    \/ CleanupInternal
    \/ CleanupWait
    \/ CleanupUser
    \/ CleanupReturn
    \/ Signal
    \/ \E id \in BridgeIds : BridgeSignal(id)
    \/ \E id \in BridgeIds : BridgeDone(id)

Spec == Init /\ [][Next]_vars

\* The Go scheduler runs every runnable goroutine: a bridge goroutine whose
\* select has a ready case eventually takes one.
\* Cancellation does not read the name, version, description, modifiers or
\* command line: the fair behaviours start from the programs that differ in
\* their cleanup procedures only.
LiveInit ==
    /\ Init
    /\ args = DefaultArgs
    /\ options.Name = DefaultOptions.Name
    /\ options.Version = DefaultOptions.Version
    /\ options.Description = DefaultOptions.Description
    /\ options.Modifiers = DefaultOptions.Modifiers

FairSpec ==
    /\ LiveInit
    /\ [][Next]_vars
    /\ \A id \in BridgeIds : WF_vars(BridgeSignal(id) \/ BridgeDone(id))

\* ------------------------------------------------- the context packages
\* The context packages are pure functions of a context: their callers build a
\* context by stores and load from it. MaxStores bounds the chain.
CanStore == Len(tctx.vals) < MaxStores

\* ctx = fileutils.ApplyRootDirToContext(ctx, files)
StoreRootDir(files) ==
    /\ CanStore
    /\ tctx' = ApplyRootDirToContext(tctx, files)
    /\ stored' = [stored EXCEPT ![RootDirKey] = files]
    /\ tres' = NoResult
    /\ UNCHANGED lifeVars

\* ctx = logging.AddToContext(ctx, logger)
StoreLogger(logger) ==
    /\ CanStore
    /\ tctx' = AddToContext(tctx, logger)
    /\ stored' = [stored EXCEPT ![LoggerKey] = logger]
    /\ tres' = NoResult
    /\ UNCHANGED lifeVars

\* ctx = context.WithValue(ctx, k, v): a caller stores any value under any key
StoreValue(k, v) ==
    /\ CanStore
    /\ tctx' = WithValue(tctx, k, v)
    /\ stored' = [stored EXCEPT ![k] = v]
    /\ tres' = NoResult
    /\ UNCHANGED lifeVars

\* fileutils.RootDirFromContext(ctx)
LoadRootDir ==
    /\ tres' = [op |-> "RootDirFromContext", out |-> RootDirFromContext(tctx)]
    /\ UNCHANGED <<tctx, stored>>
    /\ UNCHANGED lifeVars

\* logging.FromContext(ctx)
LoadLogger ==
    /\ tres' = [op |-> "FromContext", out |-> FromContext(tctx)]
    /\ UNCHANGED <<tctx, stored>>
    /\ UNCHANGED lifeVars

CtxInit ==
    /\ Init
    /\ variant = "part_001"
    /\ options = DefaultOptions
    /\ args = DefaultArgs

CtxNext ==
    \/ \E f \in Handles \cup {Missing} : StoreRootDir(f)
    \/ StoreLogger(Logger(InfoLevel))
    \/ \E k \in Keys, v \in Stored : StoreValue(k, v)
    \/ LoadRootDir
    \/ LoadLogger

CtxSpec == CtxInit /\ [][CtxNext]_vars

\* --------------------------------------------- the caller's slice storage
\* cli.cleanups[0] = func() {...; original()}: code of the package replaces
\* the first element of the chain by a wrapper; the write lands in the array
\* the chain's slice points to.
WrapCleanup ==
    /\ pc = "idle"
    /\ cleanups # <<>>
    /\ cleanups[1].kind # "wrapper"
    /\ cleanups' = [cleanups EXCEPT ![1] = Wrapped(@)]
    /\ callerArr' = IF chainShared THEN [callerArr EXCEPT ![1] = Wrapped(cleanups[1])]
                    ELSE callerArr
    /\ UNCHANGED <<lastErr, produced, registered, chainShared, tctx, tres, stored, variant,
                   options, args, pc, killed, newErr, root, children, cmdCtx, hasCtx,
                   bridges, cancelled, subs, chanBuf, tasks, cancelFunc, signalDone,
                   cleanIdx, cleanWait, order, cleanupCalls, cleanupReturns, running,
                   bodyCtx, modCalls, count, hooks, sigs, hit>>

\* Construction from every options value whose CleanupFuncs slice has up to
\* MaxSpare unused slots in its backing array.
SliceInit ==
    /\ variant \in Variants
    /\ options \in OptionsSet
    /\ args = DefaultArgs
    /\ \E spare \in 0..MaxSpare : callerArr = CallerArray(options.CleanupFuncs, spare)
    /\ Unconstructed

SliceNext == New \/ WrapCleanup

SliceSpec == SliceInit /\ [][SliceNext]_vars

\* --------------------------------------------------- validate on its own
\* err := options.validate(), called outside New on any options value (the
\* receiver is a copy of the caller's struct).
Validate ==
    /\ tres' = [op |-> "validate", out |-> validate(options)]
    /\ UNCHANGED <<tctx, stored>>
    /\ UNCHANGED lifeVars

ValInit ==
    /\ variant \in Variants
    /\ options \in OptionsSet
    /\ args = DefaultArgs
    /\ callerArr = CallerArray(options.CleanupFuncs, 0)
    /\ Unconstructed

ValNext == Validate

ValSpec == ValInit /\ [][ValNext]_vars

\* ------------------------------------------------------------------ claims
Range(f) == {f[i] : i \in DOMAIN f}
Occurrences(f, x) == Cardinality({i \in DOMAIN f : f[i] = x})

\* C1: at most one signal subscription created by the manager is live at any
\* time, whatever the number of Execute calls (pre-run hook invocations).
C1_AtMostOneSubscription == Cardinality(subs) <= 1

\* C2: with a non-empty list of caller procedures, Cleanup runs the internal
\* teardown first and then the caller's procedures in the order given: during
\* and after the first Cleanup call the procedures run so far are
\* internal, 1, 2, ... in that order.
C2_InternalThenCallerOrder ==
    (cleanupCalls = 1 /\ Len(options.CleanupFuncs) > 0)
        => \A i \in 1..Len(order) : order[i] = i - 1

\* C3: a signal delivered while a command body runs (manager constructed, not
\* torn down) leads to the cancellation of the context that body observes and
\* of every command context derived from it, as long as the process lives.
AllHitDone ==
    /\ \A h \in hit : h \cap cancelled # {}
    /\ \A c \in hasCtx :
          (\E h \in hit : h \subseteq cmdCtx[c].cancels) => IsDone(cmdCtx[c], cancelled)

C3_SignalCancelsContext == (hit # {}) ~> (pc = "panicked" \/ AllHitDone)

C3_Witness ==
    /\ hit # {}
    /\ AllHitDone
    /\ pc = "body"
    /\ IsDone(bodyCtx, cancelled)
    /\ ~killed

\* C4: when Cleanup returns, no bridge goroutine started by the manager is
\* still running.
C4_CleanupWaitsForTasks == [][(pc = "cleanup" /\ pc' = "idle") => tasks' = {}]_vars

\* C5: Cleanup is idempotent: once a Cleanup call has returned, every caller
\* procedure has run exactly once, however many Cleanup calls follow.
C5_CleanupIdempotent ==
    cleanupReturns >= 1
        => \A i \in 1..Len(options.CleanupFuncs) : Occurrences(order, i) = 1

\* C6: a panic of one procedure of the chain does not short-circuit Cleanup:
\* when Cleanup has ended with a panic, every procedure of the chain has run.
C6_NoShortCircuit ==
    pc = "panicked" => \A k \in 1..Len(cleanups) : cleanups[k].idx \in Range(order)

\* C7: New fails and returns no manager exactly when Name or Version is empty;
\* otherwise it succeeds, whatever Description, Modifiers and CleanupFuncs are,
\* and the root command carries the given name, version and description.
C7_ConstructionValidates ==
    pc # "start" =>
        IF options.Name = "" \/ options.Version = ""
        THEN /\ pc = "failed"
             /\ newErr # "nil"
             /\ root = NoRoot
             /\ cleanups = <<>>
        ELSE /\ pc # "failed"
             /\ newErr = "nil"
             /\ root.Use = options.Name
             /\ root.Version = options.Version
             /\ root.Short = options.Description

C7_Witness == pc = "failed" /\ options.Name # "" /\ options.Version = ""

\* C8: a New that fails validation allocates nothing: no signal subscription,
\* no bridge goroutine, no cancel node.
C8_FailedNewAllocatesNothing ==
    pc = "failed" => subs = {} /\ tasks = {} /\ bridges = <<>> /\ hasCtx = {}

C8_Witness == pc = "failed" /\ variant = "part_001" /\ options.Name = ""

\* C9: the logger a command body loads from its context has level warn for
\* count 0, info for 1, debug for 2 and trace for every count of 3 or more.
ClampedLevel(c) ==
    IF c = 0 THEN WarnLevel
    ELSE IF c = 1 THEN InfoLevel
    ELSE IF c = 2 THEN DebugLevel
    ELSE TraceLevel

C9_VerbosityClamps == pc = "body" => FromContext(bodyCtx) = Logger(ClampedLevel(count))

\* C10: each pre-run hook invocation calls every modifier once, in
\* registration order, m(i+1) receiving the context m(i) returned, and the
\* command body observes the key of every modifier.
C10_ModifiersInOrder ==
    hooks > 0 =>
        LET n == Len(options.Modifiers)
        IN  /\ modCalls = options.Modifiers
            /\ \A i \in 1..n :
                  /\ Value(bodyCtx, i) # Missing
                  /\ Occurrences([j \in DOMAIN bodyCtx.vals |-> bodyCtx.vals[j][1]], i) = hooks
            /\ \A i \in 1..(n - 1) : Value(bodyCtx, i + 1).v = Value(bodyCtx, i).v + 1

C10_Witness == pc = "body" /\ hooks = 2 /\ Len(options.Modifiers) = 2

\* C11: Cleanup on a constructed manager on which Execute was never called
\* does not block (some step of Cleanup can always be taken while the process
\* lives), panics only if a caller procedure itself panics, and, once it has
\* returned, has run every caller procedure.
CleanupCanStep == ENABLED (CleanupInternal \/ CleanupWait \/ CleanupUser \/ CleanupReturn)

C12_ChainHoldsInternalOnce ==
    (pc \notin {"start", "failed"} /\ HasCleanup(variant)) =>
        /\ Len(cleanups) = 1 + Len(options.CleanupFuncs)
        /\ Cardinality({k \in DOMAIN cleanups : cleanups[k].kind = "internal"}) = 1
        /\ \A i \in 1..Len(options.CleanupFuncs) :
              Cardinality({k \in DOMAIN cleanups :
                              cleanups[k] = UserProc(options.CleanupFuncs, i)}) = 1

C12_Witness ==
    /\ pc = "idle"
    /\ variant = "part_000"
    /\ options.CleanupFuncs = <<>>
    /\ cleanups = <<Internal>>

\* C13: Execute returns exactly what the matched command body or the
\* framework's parsing produced, an error unchanged and no error when there is
\* none; the pre-run hook never turns a run into an error.
C13_ExecutePassesErrorThrough == lastErr = produced /\ PreRunErr(variant) = "nil"

C13_Witness == lastErr = "body failed" /\ hooks = 1 /\ pc = "idle"

\* C14: the root's children are exactly the commands registered, in order, and
\* the body Execute starts is the body of the command the command line selects,
\* a registered command, and no other.
C14_RegisteredAndOnlySelectedRuns ==
    /\ children = registered
    /\ pc = "body" => running = args.cmd /\ running \in Range(children)
    /\ pc # "body" => running = "none"

C14_Witness ==
    /\ pc = "body"
    /\ running = "A"
    /\ children = <<"B", "A">>

\* C15: cancellation is cooperative: while a command body runs, no step ends
\* the process or the body from outside; the body stops running only by its
\* own return, after which Execute returns.
C15_BodyNeverInterrupted ==
    [][(pc = "body" /\ ~killed) =>
          /\ ~killed'
          /\ \/ pc' = "body" /\ running' = running
             \/ pc' = "idle" /\ running' = "none" /\ produced' = BodyErr(running)]_vars

\* C18: in every state in which Cleanup is at a caller-supplied procedure, no
\* signal subscription is live and the execution context is already cancelled.
AtCallerCleanup ==
    /\ pc = "cleanup"
    /\ cleanIdx <= Len(cleanups)
    /\ cleanups[cleanIdx].kind = "user"

ExecCtxCancelled == bridges # <<>> => bridges[Len(bridges)] \cap cancelled # {}

C18_ReleasedBeforeCallerCleanup == AtCallerCleanup => (subs = {} /\ ExecCtxCancelled)

\* C19: a manager has at most one signal bridge, and every step that cancels
\* a context is a step of a bridge task: the task ends in that step and the
\* primary thread does not move.
IsBridgeStep ==
    /\ \E id \in tasks : tasks' = tasks \ {id}
    /\ pc' = pc
    /\ order' = order

C19_OneBridgeOnlyWriter ==
    [][Len(bridges') <= 1 /\ (cancelled' # cancelled => IsBridgeStep)]_vars

\* C20: when Cleanup returns, every bridge task still alive, those of earlier
\* Execute calls included, has a ready case (a buffered signal or a cancelled
\* context) and so terminates; none is left blocked.
TaskReady(id) == id \in chanBuf \/ bridges[id] \cap cancelled # {}

C20_NoTaskBlockedAfterCleanup ==
    [][(pc = "cleanup" /\ pc' = "idle") => \A id \in tasks' : TaskReady(id)']_vars

\* C16: a load panics exactly when the latest store under its key was not a
\* value of its type: RootDirFromContext when no handle, a value of another
\* type or the nil handle was stored, FromContext when no logger or a value of
\* another type was stored; otherwise the load returns the stored value.
C16_LoadPanicsUnlessValid ==
    /\ tres.op = "RootDirFromContext" =>
          tres.out = (IF stored[RootDirKey] \in Handles THEN stored[RootDirKey] ELSE Panic)
    /\ tres.op = "FromContext" =>
          tres.out = (IF stored[LoggerKey].typ = "logger" THEN stored[LoggerKey] ELSE Panic)

C16_Witness ==
    /\ tres = [op |-> "RootDirFromContext", out |-> Panic]
    /\ stored[RootDirKey].typ = "string"
    /\ stored[LoggerKey].typ = "logger"

\* C17: what a context holds under each key is the value of the latest store
\* under that key, whatever was stored under other keys since, and loading the
\* root directory after storing a non-nil handle returns that handle.
C17_StoreLoadRoundTrip ==
    /\ \A k \in Keys : Value(tctx, k) = stored[k]
    /\ (tres.op = "RootDirFromContext" /\ stored[RootDirKey] \in Handles) =>
          tres.out = tctx.vals[CHOOSE i \in DOMAIN tctx.vals :
                                  /\ tctx.vals[i][1] = RootDirKey
                                  /\ \A j \in DOMAIN tctx.vals :
                                        tctx.vals[j][1] = RootDirKey => j <= i][2]

C17_Witness ==
    /\ tctx.vals = <<<<OtherKey, [typ |-> "string", v |-> 0]>>,
                     <<RootDirKey, [typ |-> "fs", v |-> 1]>>,
                     <<RootDirKey, [typ |-> "fs", v |-> 2]>>>>
    /\ tres = [op |-> "RootDirFromContext", out |-> [typ |-> "fs", v |-> 2]]

\* C21: while a command body runs, the context it observes is the one the
\* hook installed on the command; the hook stored its logger in it before it
\* called the first modifier (every modifier received a context that already
\* held that logger), so the body and the modifiers can load the logger.
C21_LoggerBeforeModifiersBeforeBody ==
    pc = "body" =>
        LET n == Len(options.Modifiers)
            p == Len(bodyCtx.vals) - n
        IN  /\ running \in hasCtx
            /\ cmdCtx[running] = bodyCtx
            /\ FromContext(bodyCtx) # Panic
            /\ p >= 1
            /\ bodyCtx.vals[p][1] = LoggerKey
            /\ bodyCtx.vals[p][2].typ = "logger"
            /\ \A i \in 1..n :
                  /\ bodyCtx.vals[p + i][1] = options.Modifiers[i]
                  /\ bodyCtx.vals[p + i][2].v >= p

C21_Witness ==
    /\ pc = "body"
    /\ variant = "registry"
    /\ hooks = 1
    /\ Len(options.Modifiers) = 2
    /\ Len(bodyCtx.vals) = 3

\* C22: a call of validate returns the name error whenever Name is empty, the
\* version error when only Version is empty and no error otherwise, and
\* changes neither the options nor any other state.
C22_ValidateNamesFieldAndIsPure ==
    [][tres'.op = "validate" =>
          /\ tres'.out = CASE options.Name = "" -> "root command must have name"
                           [] options.Name # "" /\ options.Version = "" ->
                                 "root command must have version"
                           [] OTHER -> "nil"
          /\ options' = options
          /\ UNCHANGED <<lifeVars, tctx, stored>>]_vars

C22_Witness ==
    /\ tres = [op |-> "validate", out |-> "root command must have name"]
    /\ options.Name = ""
    /\ options.Version = ""

\* C23: a signal delivered to a constructed manager before its first Execute
\* and before any Cleanup is not lost: it does not end the process and it is
\* held for the bridge, which cancels the context the later body observes.
C23_EarlySignalNotLost ==
    [][(pc = "idle" /\ hooks = 0 /\ cleanupCalls = 0 /\ sigs' = sigs + 1) =>
          (~killed' /\ chanBuf' # {})]_vars

\* C24: once a Cleanup has returned, the context a command of the manager
\* gets is cancelled, signal or no signal, and a body started by a later
\* Execute observes a cancelled context.
C24_CancelledAfterCleanup ==
    cleanupReturns >= 1 =>
        /\ IsDone(ContextOf(args.cmd), cancelled)
        /\ pc = "body" => IsDone(bodyCtx, cancelled)

\* C25: a constructed manager holds a live signal subscription until Cleanup
\* is called; a subscription is released only while Cleanup runs (not by a
\* signal being received); when Cleanup returns none remains.
C25_SubscribedUntilCleanup ==
    [][/\ (pc' \in {"idle", "body"} /\ cleanupCalls' = 0) => subs' # {}
       /\ ~(subs \subseteq subs') => pc = "cleanup"
       /\ (pc = "cleanup" /\ pc' = "idle") => subs' = {}]_vars

\* C26: the caller's CleanupFuncs storage is as the caller built it, its
\* procedures in place and its spare slots unused, before and after New and
\* after later changes to the chain, and the chain does not share that storage.
C26_CallerOptionsUntouched ==
    /\ callerArr = CallerArray(options.CleanupFuncs,
                               Len(callerArr) - Len(options.CleanupFuncs))
    /\ ~chainShared

====
